---- MODULE Spec2Model ----
(***************************************************************************)
(* Model of aurora_perf.py: AuroraPerformanceTester and main().            *)
(*                                                                         *)
(* The program is a single asyncio event loop.  A task runs without        *)
(* interruption from one await that suspends to the next, so every action  *)
(* below is one such run of a task: the orchestrator (main / run_test),    *)
(* the worker tasks and the metrics reporter task.  The store (asyncpg) is *)
(* an external collaborator: each of its calls is a suspension point whose *)
(* outcome (value, nothing, exception) is chosen by the environment within *)
(* what the table holds: a vin is selected only from the rows there are, a *)
(* row read is the row as it is then, an UPDATE replaces its payload.      *)
(* The pool size and the worker count are scaled down together (the        *)
(* source asks the pool for at least 5 connections).                       *)
(* Time is a clock that advances in steps of TickStep seconds; a timer     *)
(* that has expired is served before the clock advances again.             *)
(***************************************************************************)
EXTENDS Integers, Sequences, FiniteSets

\* ---------------------------------------------------------------- bounds
NumWorkers == 2      \* config.workers
Duration == 10       \* config.duration, seconds
MaxPoolSize == 2     \* config.pool_size is one of 1 .. MaxPoolSize
Maxlen == 1          \* capacity of the results deque (1000 in the source)
MaxOps == 2          \* attempts begun in one run, all workers together
MaxSample == 5       \* length of a list of latencies given to the statistics
TickStep == 10       \* resolution of the clock, seconds

\* ------------------------------------------------------- program constants
ReportInterval == 10 \* asyncio.sleep(10) of metrics_reporter
SnapshotLimit == 100 \* list(self.results)[-100:]

\* the latencies, in ms, a list given to the statistics is made of
LatencyValues == {10, 20, 30, 40, 50}

\* the vins of the table; one is enough for two workers to meet on it
Vins == {"WP0"}
NoVin == "None"

\* the clock runs until every timer set before the stop has expired
MaxTime == Duration + ReportInterval + TickStep

WorkerIds == 0 .. (NumWorkers - 1)
NoTime == -1         \* start_time = None

VARIABLES
    now,                    \* time.time()
    orch,                   \* position of main() / run_test()
    pool,                   \* self.pool: "none", "open", "closed"
    running,                \* self.running
    start_time,             \* self.start_time
    results,                \* self.results, oldest first
    total_operations,       \* self.total_operations
    successful_operations,  \* self.successful_operations
    failed_operations,      \* self.failed_operations
    wpc,                    \* position of each worker task
    opStart,                \* perform_operation's local start_time, per worker
    ret,                    \* the pending return of perform_operation, per worker
    operations,             \* worker's local operations
    held,                   \* connections checked out of the pool
    rpc,                    \* position of the metrics_reporter task
    wakeAt,                 \* when the reporter's sleep(10) ends
    periodic,               \* metrics lines printed by the reporter
    finalReports,           \* executions of print_final_results
    finalReport,            \* what the last print_final_results read
    appended,               \* history: every outcome ever appended to results
    attempts,               \* history: attempts begun
    signals,                \* interrupt signals delivered
    pool_size,              \* config.pool_size
    table,                  \* the vehicles table: vin -> entries_compressed
    vin,                    \* perform_operation's local vin, per worker
    row,                    \* entries_compressed of the row read, per worker
    line,                   \* what the reporter's last metrics line read
    setup,                  \* history: how initialize ended
    hadKeys,                \* history: the table had rows when the run began
    sample,                 \* a list of latencies in ms (statistics only)
    stats                   \* the statistics computed from sample

vars == << now, orch, pool, running, start_time, results, total_operations,
           successful_operations, failed_operations, wpc, opStart, ret,
           operations, held, rpc, wakeAt, periodic, finalReports, finalReport,
           appended, attempts, signals, pool_size, table, vin, row, line,
           setup, hadKeys, sample, stats >>

localVars == << vin, row >>
historyVars == << setup, hadKeys >>
statVars == << sample, stats >>
\* the configuration, the table, the locals of an attempt, the history and
\* the statistics: what an action that touches none of them leaves alone
storeFrame == << pool_size, table, localVars, historyVars, statVars, line >>

counters == << total_operations, successful_operations, failed_operations >>
workerVars == << wpc, opStart, ret, operations, held, attempts >>
reporterVars == << rpc, wakeAt, periodic >>
reportVars == << finalReports, finalReport >>

\* ---------------------------------------------------------- data and helpers

\* TestResult(success, duration, timestamp, worker_id)
TestResult(success, duration, timestamp, worker_id) ==
    [success |-> success, duration |-> duration, timestamp |-> timestamp,
     worker_id |-> worker_id]

NoRet == [kind |-> "none", success |-> FALSE, duration |-> 0]

NoReport == [total |-> -1, success |-> -1, failed |-> -1, n |-> -1]

NoLine == [total |-> -1]

\* entries_compressed: the blob a row was populated with, and the blob
\* modify_vehicle_data builds (os.urandom makes each one new)
NoBlob == [by |-> -2, n |-> 0]

InitialBlob == [by |-> -1, n |-> 0]

NewBlob(w, n) == [by |-> w, n |-> n]

EmptyTable == [k \in {} |-> InitialBlob]

\* what setup_test_table leaves: the populated table, or no row at all
\* when initial_records is 0
Tables == {EmptyTable, [k \in Vins |-> InitialBlob]}

\* UPDATE ... WHERE vin = k: a row that is gone is not an error
Update(t, k, blob) ==
    IF k \in DOMAIN t THEN [t EXCEPT ![k] = blob] ELSE t

\* DELETE ... WHERE vin = k, by another client of the database
Delete(t, k) == [j \in (DOMAIN t) \ {k} |-> t[j]]

\* ------------------------------------------------------------ statistics
\* Results that need not be whole numbers are fractions num / den.

Fraction(num, den) == [num |-> num, den |-> den]

SameValue(a, b) == a.num * b.den = b.num * a.den

RECURSIVE SumOf(_)
SumOf(data) == IF data = << >> THEN 0 ELSE Head(data) + SumOf(Tail(data))

\* statistics.mean
Mean(data) == Fraction(SumOf(data), Len(data))

RECURSIVE Insert(_, _)
Insert(x, data) ==
    IF data = << >> THEN << x >>
    ELSE IF x <= Head(data) THEN << x >> \o data
    ELSE << Head(data) >> \o Insert(x, Tail(data))

\* sorted(data)
RECURSIVE Sorted(_)
Sorted(data) ==
    IF data = << >> THEN << >> ELSE Insert(Head(data), Sorted(Tail(data)))

\* statistics.quantiles(data, n=n)[i - 1], method 'exclusive' (the
\* default): the i-th of the n - 1 cut points, interpolated between two
\* neighbours of the sorted data.  Sequences count from 1, so data[j - 1]
\* and data[j] of the library are s[j] and s[j + 1].
Quantile(data, n, i) ==
    LET s == Sorted(data)
        ld == Len(data)
        m == ld + 1
        j0 == (i * m) \div n
        j == IF j0 < 1 THEN 1 ELSE IF j0 > ld - 1 THEN ld - 1 ELSE j0
        delta == i * m - j * n
    IN  Fraction(s[j] * (n - delta) + s[j + 1] * delta, n)

\* p95_latency, lines 268 and 323
P95(data) == IF Len(data) > 1 THEN Quantile(data, 20, 19) ELSE Mean(data)

\* the latency statistics of a report; all 0 when there is no result
LatencyStats(data) ==
    IF data = << >>
    THEN [n |-> 0, avg |-> Fraction(0, 1), p95 |-> Fraction(0, 1)]
    ELSE [n |-> Len(data), avg |-> Mean(data), p95 |-> P95(data)]

NoStats == [n |-> -1, avg |-> Fraction(0, 1), p95 |-> Fraction(0, 1)]

\* [r.duration * 1000 for r in buf]
Latencies(buf) == [i \in 1 .. Len(buf) |-> buf[i].duration * 1000]

\* success_rate, lines 262 and 315
SuccessRate ==
    IF total_operations > 0
    THEN Fraction(successful_operations * 100, total_operations)
    ELSE Fraction(0, 1)

\* mutation of DequeAppend: a full buffer refuses the new entry
Append_KeepOldest(buf, r) ==
    IF Len(buf) >= Maxlen THEN buf ELSE Append(buf, r)

\* deque(maxlen=...).append: a full deque drops its oldest entry
DequeAppend(buf, r) ==
    IF Len(buf) >= Maxlen THEN Append(Tail(buf), r) ELSE Append(buf, r)

\* mutation of NewTotal: the total is counted inside the success branch
NewTotal_OnSuccessOnly(t, success) == IF success THEN t + 1 ELSE t

\* the three counter updates of worker's recording step
NewTotal(t, success) == t + 1

\* mutation of NewSuccessful: a failure takes one success back
NewSuccessful_Net(s, success) == IF success THEN s + 1 ELSE s - 1

NewSuccessful(s, success) == IF success THEN s + 1 ELSE s

\* mutation of NewFailed: the else branch is missing
NewFailed_Never(f, success) == f

NewFailed(f, success) == IF success THEN f ELSE f + 1

\* mutation of LoopCond: the deadline is not tested
LoopCond_RunningOnly == running

\* mutation of LoopCond: running is not tested
LoopCond_DeadlineOnly == now < start_time + Duration

\* the condition of worker's while loop
LoopCond == running /\ now < start_time + Duration

Live(pc) == pc \notin {"none", "done", "cancelled"}

AllTasksDone ==
    /\ \A w \in WorkerIds : ~Live(wpc[w])
    /\ ~Live(rpc)

\* ------------------------------------------------------------------ Init

\* AuroraPerformanceTester(config), before initialize
Constructed ==
    /\ now = 0
    /\ orch = "init"
    /\ pool = "none"
    /\ running = FALSE
    /\ start_time = NoTime
    /\ results = << >>
    /\ total_operations = 0
    /\ successful_operations = 0
    /\ failed_operations = 0
    /\ wpc = [w \in WorkerIds |-> "none"]
    /\ opStart = [w \in WorkerIds |-> 0]
    /\ ret = [w \in WorkerIds |-> NoRet]
    /\ operations = [w \in WorkerIds |-> 0]
    /\ held = 0
    /\ rpc = "none"
    /\ wakeAt = 0
    /\ periodic = 0
    /\ finalReports = 0
    /\ finalReport = NoReport
    /\ appended = << >>
    /\ attempts = 0
    /\ signals = 0
    /\ pool_size \in 1 .. MaxPoolSize
    /\ table = EmptyTable
    /\ vin = [w \in WorkerIds |-> NoVin]
    /\ row = [w \in WorkerIds |-> NoBlob]
    /\ line = NoLine
    /\ setup = "pending"
    /\ hadKeys = FALSE

Init ==
    /\ Constructed
    /\ sample = << >>
    /\ stats = NoStats

\* --------------------------------------------------------------- worker

\* worker, lines 241-249: append the result, bump the counters, operations += 1
Record(w, r) ==
    /\ results' = DequeAppend(results, r)
    /\ total_operations' = NewTotal(total_operations, r.success)
    /\ successful_operations' = NewSuccessful(successful_operations, r.success)
    /\ failed_operations' = NewFailed(failed_operations, r.success)
    /\ operations' = [operations EXCEPT ![w] = @ + 1]
    /\ appended' = Append(appended, r)

\* worker, lines 238-239 and 251: the while test; when it holds
\* perform_operation starts (start_time = time.time()) and runs up to
\* pool.acquire(), otherwise the worker prints its count and returns.
\* No await separates this from the step that leads here.
Continue(w) ==
    IF LoopCond
    THEN /\ attempts < MaxOps
         /\ wpc' = [wpc EXCEPT ![w] = "acquire"]
         /\ opStart' = [opStart EXCEPT ![w] = now]
         /\ attempts' = attempts + 1
    ELSE /\ wpc' = [wpc EXCEPT ![w] = "done"]
         /\ UNCHANGED << opStart, attempts >>

\* first run of a worker task created by run_test
WorkerStart(w) ==
    /\ wpc[w] = "created"
    /\ Continue(w)
    /\ UNCHANGED storeFrame
    /\ UNCHANGED << now, orch, pool, running, start_time, results, counters,
                    ret, operations, held, reporterVars, reportVars, appended,
                    signals >>

\* mutation of Acquire: the pool hands out connections without a limit
Acquire_NoLimit(w) ==
    /\ wpc[w] = "acquire"
    /\ held' = held + 1
    /\ wpc' = [wpc EXCEPT ![w] = "fetchval"]
    /\ UNCHANGED storeFrame
    /\ UNCHANGED << now, orch, pool, running, start_time, results, counters,
                    opStart, ret, operations, reporterVars, reportVars,
                    appended, attempts, signals >>

\* pool.acquire() hands out a connection; it waits while none is free
Acquire(w) ==
    /\ wpc[w] = "acquire"
    /\ held < pool_size
    /\ held' = held + 1
    /\ wpc' = [wpc EXCEPT ![w] = "fetchval"]
    /\ UNCHANGED storeFrame
    /\ UNCHANGED << now, orch, pool, running, start_time, results, counters,
                    opStart, ret, operations, reporterVars, reportVars,
                    appended, attempts, signals >>

\* pool.acquire() raises: the except clause builds the failed result, the
\* worker records it and goes on with its loop
AcquireRaises(w) ==
    /\ wpc[w] = "acquire"
    /\ Record(w, TestResult(FALSE, now - opStart[w], opStart[w], w))
    /\ Continue(w)
    /\ UNCHANGED storeFrame
    /\ UNCHANGED << now, orch, pool, running, start_time, ret, held,
                    reporterVars, reportVars, signals >>

\* a return statement inside the async with block: the result is built
\* before the connection is released
Return(w, success) ==
    /\ ret' = [ret EXCEPT ![w] = [kind |-> "ret", success |-> success,
                                  duration |-> now - opStart[w]]]
    /\ wpc' = [wpc EXCEPT ![w] = "release"]

\* mutation of Raise: there is no except clause, the exception ends the
\* worker task and nothing is recorded
Raise_Propagates(w) ==
    /\ ret' = ret
    /\ wpc' = [wpc EXCEPT ![w] = "done"]

\* an exception inside the async with block: the connection is released
\* first, the except clause builds the result afterwards
Raise(w) ==
    /\ ret' = [ret EXCEPT ![w] = [kind |-> "exc", success |-> FALSE,
                                  duration |-> 0]]
    /\ wpc' = [wpc EXCEPT ![w] = "release"]

StoreCallFrame ==
    UNCHANGED << pool_size, historyVars, statVars, line, now, orch, pool, running, start_time, results, counters,
                 opStart, operations, held, reporterVars, reportVars,
                 appended, attempts, signals >>

\* SELECT vin ... ORDER BY RANDOM() LIMIT 1
FetchvalVin(w) ==
    /\ wpc[w] = "fetchval"
    /\ \E k \in DOMAIN table : vin' = [vin EXCEPT ![w] = k]
    /\ wpc' = [wpc EXCEPT ![w] = "fetchrow"]
    /\ UNCHANGED << ret, row, table >>
    /\ StoreCallFrame

\* mutation of FetchvalNone: a missing vin is reported as a success
FetchvalNone_Success(w) ==
    /\ wpc[w] = "fetchval"
    /\ DOMAIN table = {}
    /\ Return(w, TRUE)
    /\ UNCHANGED << localVars, table >>
    /\ StoreCallFrame

\* the table has no row: fetchval returns None, line 209 returns a failure
FetchvalNone(w) ==
    /\ wpc[w] = "fetchval"
    /\ DOMAIN table = {}
    /\ Return(w, FALSE)
    /\ UNCHANGED << localVars, table >>
    /\ StoreCallFrame

FetchvalRaises(w) ==
    /\ wpc[w] = "fetchval"
    /\ Raise(w)
    /\ UNCHANGED << localVars, table >>
    /\ StoreCallFrame

\* SELECT vin, entries_compressed, brand ... WHERE vin = $1
FetchrowRow(w) ==
    /\ wpc[w] = "fetchrow"
    /\ vin[w] \in DOMAIN table
    /\ row' = [row EXCEPT ![w] = table[vin[w]]]
    /\ wpc' = [wpc EXCEPT ![w] = "execute"]
    /\ UNCHANGED << ret, vin, table >>
    /\ StoreCallFrame

\* the row was deleted after its vin was selected: line 218
FetchrowNone(w) ==
    /\ wpc[w] = "fetchrow"
    /\ vin[w] \notin DOMAIN table
    /\ Return(w, FALSE)
    /\ UNCHANGED << localVars, table >>
    /\ StoreCallFrame

FetchrowRaises(w) ==
    /\ wpc[w] = "fetchrow"
    /\ Raise(w)
    /\ UNCHANGED << localVars, table >>
    /\ StoreCallFrame

\* UPDATE ... SET entries_compressed = $1, updated_at = NOW() WHERE vin = $2
\* the statement carries no condition on what was read
Write(w) ==
    table' = Update(table, vin[w], NewBlob(w, operations[w] + 1))

\* mutation of ExecuteOk: the UPDATE is conditional on the row still being
\* what was read, and an attempt that lost the race fails
ExecuteOk_IfUnchanged(w) ==
    /\ wpc[w] = "execute"
    /\ IF vin[w] \in DOMAIN table /\ table[vin[w]] # row[w]
       THEN Return(w, FALSE) /\ UNCHANGED table
       ELSE Return(w, TRUE) /\ Write(w)
    /\ UNCHANGED localVars
    /\ StoreCallFrame

ExecuteOk(w) ==
    /\ wpc[w] = "execute"
    /\ Write(w)
    /\ Return(w, TRUE)
    /\ UNCHANGED localVars
    /\ StoreCallFrame

\* the call raises (timeout, connection lost); the statement may have been
\* executed before it does
ExecuteRaises(w) ==
    /\ wpc[w] = "execute"
    /\ \/ Write(w)
       \/ UNCHANGED table
    /\ Raise(w)
    /\ UNCHANGED localVars
    /\ StoreCallFrame

\* the result perform_operation hands to worker once the connection is back
Outcome(w) ==
    IF ret[w].kind = "ret"
    THEN TestResult(ret[w].success, ret[w].duration, opStart[w], w)
    ELSE TestResult(FALSE, now - opStart[w], opStart[w], w)

\* mutation of Release: a worker that finds the deadline passed clears
\* running itself
Release_StopsRun(w) ==
    /\ wpc[w] = "release"
    /\ held' = held - 1
    /\ Record(w, Outcome(w))
    /\ Continue(w)
    /\ running' = (running /\ LoopCond)
    /\ ret' = [ret EXCEPT ![w] = NoRet]
    /\ vin' = [vin EXCEPT ![w] = NoVin]
    /\ row' = [row EXCEPT ![w] = NoBlob]
    /\ UNCHANGED << pool_size, table, historyVars, statVars, line >>
    /\ UNCHANGED << now, orch, pool, start_time, reporterVars, reportVars,
                    signals >>

\* the connection goes back to the pool, perform_operation returns, worker
\* records the result and goes on with its loop
Release(w) ==
    /\ wpc[w] = "release"
    /\ held' = held - 1
    /\ Record(w, Outcome(w))
    /\ Continue(w)
    /\ ret' = [ret EXCEPT ![w] = NoRet]
    /\ vin' = [vin EXCEPT ![w] = NoVin]
    /\ row' = [row EXCEPT ![w] = NoBlob]
    /\ UNCHANGED << pool_size, table, historyVars, statVars, line >>
    /\ UNCHANGED << now, orch, pool, running, start_time, reporterVars,
                    reportVars, signals >>

\* ------------------------------------------------------------- reporter

\* metrics_reporter, lines 255-256: the while test, then asyncio.sleep(10)
ReporterLoop ==
    IF running
    THEN /\ rpc' = "sleep"
         /\ wakeAt' = now + ReportInterval
    ELSE /\ rpc' = "done"
         /\ UNCHANGED wakeAt

ReporterStart ==
    /\ rpc = "created"
    /\ ReporterLoop
    /\ UNCHANGED storeFrame
    /\ UNCHANGED << now, orch, pool, running, start_time, results, counters,
                    workerVars, periodic, reportVars, appended, signals >>

\* metrics_reporter, lines 260-270: the counters are read, the statistics
\* are computed on a copy of the last SnapshotLimit results
Snapshot(buf) ==
    SubSeq(buf, Len(buf) - (IF Len(buf) < SnapshotLimit THEN Len(buf)
                            ELSE SnapshotLimit) + 1, Len(buf))

MetricsLine ==
    [total |-> total_operations,
     rate |-> SuccessRate,
     latency |-> LatencyStats(Latencies(Snapshot(results)))]

\* mutation of ReporterWake: running is not tested again after the sleep
ReporterWake_NoRecheck ==
    /\ rpc = "sleep"
    /\ now >= wakeAt
    /\ periodic' = periodic + 1
    /\ line' = MetricsLine
    /\ ReporterLoop
    /\ UNCHANGED << pool_size, table, localVars, historyVars, statVars >>
    /\ UNCHANGED << now, orch, pool, running, start_time, results, counters,
                    workerVars, reportVars, appended, signals >>

\* mutation of ReporterWake: the results the line was computed from are
\* taken out of the buffer
ReporterWake_Drains ==
    /\ rpc = "sleep"
    /\ now >= wakeAt
    /\ IF ~running
       THEN /\ rpc' = "done"
            /\ UNCHANGED << wakeAt, periodic, line, results >>
       ELSE /\ periodic' = periodic + 1
            /\ line' = MetricsLine
            /\ results' = << >>
            /\ ReporterLoop
    /\ UNCHANGED << pool_size, table, localVars, historyVars, statVars >>
    /\ UNCHANGED << now, orch, pool, running, start_time, counters,
                    workerVars, reportVars, appended, signals >>

\* metrics_reporter, lines 257-275: the sleep is over; a reporter that finds
\* running false leaves, otherwise it prints one line and loops
ReporterWake ==
    /\ rpc = "sleep"
    /\ now >= wakeAt
    /\ IF ~running
       THEN /\ rpc' = "done"
            /\ UNCHANGED << wakeAt, periodic, line >>
       ELSE /\ periodic' = periodic + 1
            /\ line' = MetricsLine
            /\ ReporterLoop
    /\ UNCHANGED << pool_size, table, localVars, historyVars, statVars >>
    /\ UNCHANGED << now, orch, pool, running, start_time, results, counters,
                    workerVars, reportVars, appended, signals >>

\* --------------------------------------------------------- orchestrator

\* initialize: create_pool and setup_test_table succeed
InitializeOk ==
    /\ orch = "init"
    /\ pool' = "open"
    /\ orch' = "ready"
    /\ table' \in Tables
    /\ setup' = "ok"
    /\ UNCHANGED << pool_size, localVars, hadKeys,
                    statVars, line >>
    /\ UNCHANGED << now, running, start_time, results, counters, workerVars,
                    reporterVars, reportVars, appended, signals >>

\* mutation of InitializeFails: the except clause of initialize has no
\* raise, main goes on to run_test
InitializeFails_Swallowed ==
    /\ orch = "init"
    /\ \E p \in {"none", "open"} : pool' = p
    /\ orch' = "ready"
    /\ setup' = "failed"
    /\ UNCHANGED << pool_size, table, localVars, hadKeys, statVars, line >>
    /\ UNCHANGED << now, running, start_time, results, counters, workerVars,
                    reporterVars, reportVars, appended, signals >>

\* initialize raises, in create_pool (no pool yet) or in setup_test_table
\* (the pool exists); main prints the failure and goes to its finally
InitializeFails ==
    /\ orch = "init"
    /\ \E p \in {"none", "open"} : pool' = p
    /\ orch' = "failed"
    /\ setup' = "failed"
    /\ UNCHANGED << pool_size, table, localVars, hadKeys,
                    statVars, line >>
    /\ UNCHANGED << now, running, start_time, results, counters, workerVars,
                    reporterVars, reportVars, appended, signals >>

\* run_test, lines 279-300: set running, take the start time, create the
\* worker tasks and the reporter task, then sleep for the duration
RunTest ==
    /\ orch = "ready"
    /\ running' = TRUE
    /\ start_time' = now
    /\ wpc' = [w \in WorkerIds |-> "created"]
    /\ rpc' = "created"
    /\ orch' = "sleep"
    /\ hadKeys' = (DOMAIN table # {})
    /\ UNCHANGED << pool_size, table, localVars, setup,
                    statVars, line >>
    /\ UNCHANGED << now, pool, results, counters, opStart, ret, operations,
                    held, wakeAt, periodic, reportVars, appended, attempts,
                    signals >>

\* run_test, lines 300-306: the sleep is over, the finally block clears
\* running and waits in gather
DurationElapsed ==
    /\ orch = "sleep"
    /\ now >= start_time + Duration
    /\ running' = FALSE
    /\ orch' = "gather"
    /\ UNCHANGED << pool_size, table, localVars, setup, hadKeys,
                    statVars, line >>
    /\ UNCHANGED << now, pool, start_time, results, counters, workerVars,
                    reporterVars, reportVars, appended, signals >>

\* print_final_results: reads the counters and the whole buffer
PrintFinalResults ==
    /\ finalReports' = finalReports + 1
    /\ finalReport' = [total |-> total_operations,
                       success |-> successful_operations,
                       failed |-> failed_operations,
                       n |-> Len(results),
                       rate |-> SuccessRate,
                       latency |-> LatencyStats(Latencies(results))]

\* mutation of GatherDone: the results are printed without the gather
GatherDone_NoWait ==
    /\ orch = "gather"
    /\ PrintFinalResults
    /\ orch' = "reported"
    /\ UNCHANGED storeFrame
    /\ UNCHANGED << now, pool, running, start_time, results, counters,
                    workerVars, reporterVars, appended, signals >>

\* mutation of GatherDone: the results are printed a second time
GatherDone_PrintTwice ==
    /\ orch = "gather"
    /\ AllTasksDone
    /\ finalReports' = finalReports + 2
    /\ finalReport' = [total |-> total_operations,
                       success |-> successful_operations,
                       failed |-> failed_operations,
                       n |-> Len(results),
                       rate |-> SuccessRate,
                       latency |-> LatencyStats(Latencies(results))]
    /\ orch' = "reported"
    /\ UNCHANGED storeFrame
    /\ UNCHANGED << now, pool, running, start_time, results, counters,
                    workerVars, reporterVars, appended, signals >>

\* run_test, lines 306-309: gather returns once every task is done, then
\* the final results are printed and run_test returns to main
GatherDone ==
    /\ orch = "gather"
    /\ AllTasksDone
    /\ PrintFinalResults
    /\ orch' = "reported"
    /\ UNCHANGED storeFrame
    /\ UNCHANGED << now, pool, running, start_time, results, counters,
                    workerVars, reporterVars, appended, signals >>

\* main's finally and close: the pool, when there is one, is closed
Close ==
    /\ orch \in {"reported", "aborted", "failed"}
    /\ pool' = IF pool = "open" THEN "closed" ELSE pool
    /\ orch' = "closed"
    /\ UNCHANGED storeFrame
    /\ UNCHANGED << now, running, start_time, results, counters, workerVars,
                    reporterVars, reportVars, appended, signals >>

\* ------------------------------------------------------ interrupt signal

\* Every task that has not finished is cancelled: CancelledError passes the
\* except Exception of perform_operation, the async with gives the
\* connection back, nothing is recorded.
CancelTasks ==
    /\ wpc' = [w \in WorkerIds |-> IF Live(wpc[w]) THEN "cancelled" ELSE wpc[w]]
    /\ ret' = [w \in WorkerIds |-> NoRet]
    /\ held' = 0
    /\ rpc' = IF Live(rpc) THEN "cancelled" ELSE rpc
    /\ vin' = [w \in WorkerIds |-> NoVin]
    /\ row' = [w \in WorkerIds |-> NoBlob]

\* mutation of InterruptRunning: the stop is in the try body, not in a
\* finally block, so the interrupt leaves run_test at once
Interrupt_KeepRunning ==
    /\ orch = "sleep"
    /\ signals' = signals + 1
    /\ orch' = "aborted"
    /\ UNCHANGED storeFrame
    /\ UNCHANGED << now, pool, running, start_time, results, counters,
                    workerVars, reporterVars, reportVars, appended >>

\* The interrupt reaches run_test in asyncio.sleep(duration): the finally
\* block runs as at the end of the duration.  The runtime either cancels
\* the main task alone (the other tasks go on to the drain) or every task
\* of the loop.
InterruptRunning ==
    /\ orch = "sleep"
    /\ signals' = signals + 1
    /\ running' = FALSE
    /\ orch' = "gather"
    /\ \/ UNCHANGED << wpc, ret, held, rpc, localVars >>
       \/ CancelTasks
    /\ UNCHANGED << pool_size, table, setup, hadKeys, statVars, line >>
    /\ UNCHANGED << now, pool, start_time, results, counters, opStart,
                    operations, wakeAt, periodic, reportVars, appended,
                    attempts >>

\* mutation of InterruptDraining: the exception leaves run_test and the
\* tasks gather was waiting for go on running
InterruptDraining_TasksGoOn ==
    /\ orch = "gather"
    /\ signals' = signals + 1
    /\ orch' = "aborted"
    /\ UNCHANGED << wpc, ret, held, rpc, localVars >>
    /\ UNCHANGED << pool_size, table, historyVars, statVars, line >>
    /\ UNCHANGED << now, pool, running, start_time, results, counters,
                    opStart, operations, wakeAt, periodic, reportVars,
                    appended, attempts >>

\* The interrupt reaches run_test while it waits in gather, inside the
\* finally block: the exception leaves the block there, gather's tasks are
\* cancelled, print_final_results is not reached.
InterruptDraining ==
    /\ orch = "gather"
    /\ signals' = signals + 1
    /\ CancelTasks
    /\ orch' = "aborted"
    /\ UNCHANGED << pool_size, table, historyVars, statVars, line >>
    /\ UNCHANGED << now, pool, running, start_time, results, counters,
                    opStart, operations, wakeAt, periodic, reportVars,
                    appended, attempts >>

\* The interrupt reaches main in initialize, before run_test.
InterruptSetup ==
    /\ orch = "init"
    /\ signals' = signals + 1
    /\ \E p \in {"none", "open"} : pool' = p
    /\ orch' = "aborted"
    /\ UNCHANGED storeFrame
    /\ UNCHANGED << now, running, start_time, results, counters, workerVars,
                    reporterVars, reportVars, appended >>

\* ---------------------------------------------------- the database's users

\* another client of the database deletes a row while the test runs
ExternalDelete ==
    /\ orch = "sleep"
    /\ \E k \in DOMAIN table : table' = Delete(table, k)
    /\ UNCHANGED << now, orch, pool, running, start_time, results, counters,
                    workerVars, reporterVars, reportVars, appended, signals,
                    pool_size, localVars, historyVars, statVars,
                    line >>

\* ------------------------------------------------------------------ clock

TimerDue ==
    \/ orch = "sleep" /\ now >= start_time + Duration
    \/ rpc = "sleep" /\ now >= wakeAt

Tick ==
    /\ orch \in {"sleep", "gather"}
    /\ ~TimerDue
    /\ now + TickStep <= MaxTime
    /\ now' = now + TickStep
    /\ UNCHANGED storeFrame
    /\ UNCHANGED << orch, pool, running, start_time, results, counters,
                    workerVars, reporterVars, reportVars, appended, signals >>

\* ------------------------------------------------------- the specification

WorkerStep(w) ==
    \/ WorkerStart(w)
    \/ Acquire(w)
    \/ AcquireRaises(w)
    \/ FetchvalVin(w)
    \/ FetchvalNone(w)
    \/ FetchvalRaises(w)
    \/ FetchrowRow(w)
    \/ FetchrowNone(w)
    \/ FetchrowRaises(w)
    \/ ExecuteOk(w)
    \/ ExecuteRaises(w)
    \/ Release(w)

ReporterStep ==
    \/ ReporterStart
    \/ ReporterWake

OrchStep ==
    \/ InitializeOk
    \/ InitializeFails
    \/ RunTest
    \/ DurationElapsed
    \/ GatherDone
    \/ Close

Signal ==
    \/ InterruptRunning
    \/ InterruptDraining
    \/ InterruptSetup

Next ==
    \/ OrchStep
    \/ \E w \in WorkerIds : WorkerStep(w)
    \/ ReporterStep
    \/ Signal
    \/ ExternalDelete
    \/ Tick

Spec == Init /\ [][Next]_vars

\* ------------------------------------------- the statistics on their own

Samples == UNION {[1 .. n -> LatencyValues] : n \in 1 .. MaxSample}

StatsInit ==
    /\ Constructed
    /\ sample \in Samples
    /\ stats = NoStats

\* lines 264-270 and 317-326 on a list of latencies
ComputeStats ==
    /\ stats = NoStats
    /\ stats' = LatencyStats(sample)
    /\ UNCHANGED << now, orch, pool, running, start_time, results, counters,
                    workerVars, reporterVars, reportVars, appended, signals,
                    pool_size, table, localVars, historyVars, line,
                    sample >>

StatsNext == ComputeStats

StatsSpec == StatsInit /\ [][StatsNext]_vars

\* a step of the program itself, as opposed to a signal from outside
Progress ==
    \/ OrchStep
    \/ \E w \in WorkerIds : WorkerStep(w)
    \/ ReporterStep
    \/ Tick

\* The event loop does not idle while a task can run, a store call can
\* answer or a timer is still to expire; no interrupt is obliged to come.
FairSpec == Spec /\ WF_vars(Progress)

\* ------------------------------------------------------------ properties

Started == start_time # NoTime

InFlight(w) ==
    wpc[w] \in {"acquire", "fetchval", "fetchrow", "execute", "release"}

Returned(w) == wpc[w] \in {"done", "cancelled"}

RECURSIVE SumOperations(_)
SumOperations(S) ==
    IF S = {} THEN 0
    ELSE LET w == CHOOSE x \in S : TRUE
         IN  operations[w] + SumOperations(S \ {w})

Successes == Cardinality({i \in 1 .. Len(appended) : appended[i].success})

Failures == Cardinality({i \in 1 .. Len(appended) : ~appended[i].success})

Min(a, b) == IF a < b THEN a ELSE b

LastOf(seq, k) == SubSeq(seq, Len(seq) - k + 1, Len(seq))

\* C1: in every state a task can observe, the total count is the sum of the
\* success count and the failure count.
C1_CountersAddUp ==
    total_operations = successful_operations + failed_operations

C1_Witness ==
    /\ \A w \in WorkerIds : operations[w] >= 1
    /\ successful_operations >= 1
    /\ failed_operations >= 1

\* C2: once every worker has returned, the total count is the number of
\* attempts the workers completed (the sum of their own counts), the success
\* count is the number of recorded outcomes with success, the failure count
\* the number without.
C2_NoLostUpdate ==
    (Started /\ \A w \in WorkerIds : Returned(w)) =>
        /\ total_operations = SumOperations(WorkerIds)
        /\ total_operations = Len(appended)
        /\ successful_operations = Successes
        /\ failed_operations = Failures

C2_Witness ==
    /\ \A w \in WorkerIds : wpc[w] = "done" /\ operations[w] >= 1
    /\ Successes >= 1
    /\ Failures >= 1

C4_BeginOnlyWhileRunning ==
    [][attempts' > attempts => (running /\ now < start_time + Duration)]_vars

C4_Witness ==
    /\ Started
    /\ ~running
    /\ attempts < MaxOps
    /\ \E w \in WorkerIds : InFlight(w)
    /\ \E w \in WorkerIds : wpc[w] = "done"

\* C5: a run that started and ended with the duration elapsed, without an
\* interrupt, has printed the final results exactly once; they are never
\* printed twice.
C5_OneFinalReport ==
    /\ finalReports <= 1
    /\ (Started /\ signals = 0 /\ orch \in {"reported", "closed"}) =>
           finalReports = 1

C5_Witness ==
    /\ orch = "closed"
    /\ signals = 0
    /\ finalReports = 1
    /\ periodic >= 1
    /\ total_operations >= 1

\* C6: the reporter prints a metrics line only while running is true, hence
\* before the stop, before the final results and before the end of the run.
C6_NoLateMetricsLine ==
    [][periodic' > periodic =>
          (running /\ orch = "sleep" /\ finalReports = 0)]_vars

C6_Witness ==
    /\ rpc = "done"
    /\ wakeAt > 0
    /\ periodic >= 1
    /\ finalReports = 1

\* C7: an interrupt that arrives while run_test sleeps clears running in
\* that step whatever the clock says, and the run goes through the drain
\* to one final report that shows the counters as they are then (as long as
\* no further interrupt arrives).
C7_InterruptStopsAndReports ==
    /\ [][(orch = "sleep" /\ signals' > signals) =>
             (running' = FALSE /\ orch' = "gather")]_vars
    /\ [][(signals = 1 /\ orch = "gather" /\ orch' # "gather"
             /\ signals' = signals) =>
             /\ orch' = "reported"
             /\ finalReports' = 1
             /\ finalReport'.total = total_operations
             /\ finalReport'.success = successful_operations
             /\ finalReport'.failed = failed_operations
             /\ finalReport'.n = Len(results)]_vars
    /\ ((signals = 1 /\ orch = "gather") ~> (finalReports = 1 \/ signals > 1))

C7_Witness ==
    /\ orch = "reported"
    /\ signals = 1
    /\ now < start_time + Duration
    /\ finalReport.total >= 1
    /\ \E w \in WorkerIds : wpc[w] = "done"

\* C8: whatever interrupts arrive during a run, once or twice, a run that
\* started ends with the final results printed exactly once.
C8_InterruptIdempotent ==
    (Started /\ orch = "closed") => finalReports = 1

\* C9: once running has been cleared, every worker and the reporter return
\* and the final results are printed.
C9_StopLeadsToReport ==
    (Started /\ ~running) ~> (AllTasksDone /\ finalReports >= 1)

\* the same, for the runs in which no interrupt arrives during the drain
DrainsUnlessInterrupted ==
    (Started /\ ~running) ~>
        (AllTasksDone /\ (finalReports >= 1 \/ orch \in {"aborted", "closed"}))

\* C10: the final results are read only when every worker and the reporter
\* have returned, and from then on the counters and the buffer stay as they
\* were read.
C10_ReportAfterDrain ==
    /\ [](finalReports >= 1 =>
             /\ AllTasksDone
             /\ finalReport.total = total_operations
             /\ finalReport.success = successful_operations
             /\ finalReport.failed = failed_operations
             /\ finalReport.n = Len(results))
    /\ [][finalReports >= 1 => UNCHANGED << counters, results >>]_vars

C10_Witness ==
    /\ orch = "closed"
    /\ finalReports = 1
    /\ finalReport.total = MaxOps
    /\ \A w \in WorkerIds : wpc[w] = "done" /\ operations[w] >= 1

Holding(w) == wpc[w] \in {"fetchval", "fetchrow", "execute", "release"}

Last(seq) == seq[Len(seq)]

\* the step in which worker w records the failure r of its attempt and goes
\* on to its loop test, with nothing else of the run touched
RecordsFailure(w) ==
    /\ Len(appended') = Len(appended) + 1
    /\ Last(appended').success = FALSE
    /\ Last(appended').worker_id = w
    /\ results' = DequeAppend(results, Last(appended'))
    /\ failed_operations' = failed_operations + 1
    /\ total_operations' = total_operations + 1
    /\ successful_operations' = successful_operations
    /\ operations'[w] = operations[w] + 1
    /\ ret'[w] = NoRet
    /\ wpc'[w] = IF LoopCond THEN "acquire" ELSE "done"
    /\ \A v \in WorkerIds \ {w} : wpc'[v] = wpc[v]
    /\ UNCHANGED << running, orch, rpc >>

\* C11: a failure at any step of an attempt never ends the worker: a store
\* call that fails leaves the worker on its way to the release of the
\* connection, and the worker then records exactly one outcome with
\* success false and goes on to its next loop test; no other worker, the
\* reporter or the run is touched.  A failed acquire is recorded the same way.
C11_FailureRecordedNotPropagated ==
    [][\A w \in WorkerIds :
          /\ (/\ wpc[w] \in {"fetchval", "fetchrow", "execute"}
              /\ wpc'[w] # wpc[w]
              /\ signals' = signals) =>
                 /\ wpc'[w] \in {"fetchrow", "execute", "release"}
                 /\ (wpc'[w] = "release" => ret'[w].kind \in {"ret", "exc"})
                 /\ \A v \in WorkerIds \ {w} : wpc'[v] = wpc[v]
                 /\ UNCHANGED << running, orch, rpc, counters, results >>
          /\ (/\ wpc[w] = "release"
              /\ ~ret[w].success
              /\ wpc'[w] # "release"
              /\ signals' = signals) => RecordsFailure(w)
          /\ (/\ wpc[w] = "acquire"
              /\ wpc'[w] # "fetchval"
              /\ (wpc'[w] # "acquire" \/ operations'[w] # operations[w])
              /\ signals' = signals) => RecordsFailure(w)]_vars

C11_Witness ==
    /\ \E w \in WorkerIds :
          /\ InFlight(w)
          /\ operations[w] = 1
          /\ \E i \in 1 .. Len(appended) :
                ~appended[i].success /\ appended[i].worker_id = w
    /\ \A w \in WorkerIds : Live(wpc[w])
    /\ running

\* C12: when initialize fails, running is never set, no worker and no
\* reporter task is created, no metrics line and no final results are
\* printed, and the exception reaches main, which goes to its finally.
C12_SetupFailureStartsNothing ==
    setup = "failed" =>
        /\ ~running
        /\ ~Started
        /\ \A w \in WorkerIds : wpc[w] = "none"
        /\ rpc = "none"
        /\ periodic = 0
        /\ finalReports = 0
        /\ total_operations = 0
        /\ orch \in {"failed", "closed"}

C12_Witness ==
    /\ setup = "failed"
    /\ orch = "closed"
    /\ pool = "closed"

\* C13: in a run that began with no row in the table, no attempt gets past
\* the selection of a vin, so no UPDATE is issued; every outcome is a
\* failure, each one counted in the total and in the failures; the final
\* results show a success rate of 0.
C13_EmptyTableAllFail ==
    (Started /\ ~hadKeys) =>
        /\ table = EmptyTable
        /\ \A w \in WorkerIds : wpc[w] \notin {"fetchrow", "execute"}
        /\ \A w \in WorkerIds : wpc[w] = "release" => ~ret[w].success
        /\ \A i \in 1 .. Len(appended) : ~appended[i].success
        /\ successful_operations = 0
        /\ failed_operations = total_operations
        /\ total_operations = Len(appended)
        /\ finalReports >= 1 =>
               /\ finalReport.rate.num = 0
               /\ finalReport.total = Len(appended)
               /\ finalReport.failed = finalReport.total

C13_Witness ==
    /\ Started
    /\ ~hadKeys
    /\ orch = "closed"
    /\ signals = 0
    /\ finalReports = 1
    /\ finalReport.total = MaxOps
    /\ \A w \in WorkerIds : operations[w] >= 1
    /\ \E i \in 1 .. Len(appended) : appended[i].duration = 0

\* C15: a worker holds a connection exactly while it is inside the async
\* with block of an attempt, so none between attempts or after it returned
\* and never two; the connections held are never more than pool_size, also
\* when there are more workers than that.
C15_ConnectionsBounded ==
    /\ held = Cardinality({w \in WorkerIds : Holding(w)})
    /\ held <= pool_size
    /\ held >= 0

C15_Witness ==
    /\ pool_size < NumWorkers
    /\ held = pool_size
    /\ \E w \in WorkerIds : wpc[w] = "acquire"
    /\ \E w \in WorkerIds : wpc[w] = "release" /\ ret[w].kind = "exc"

\* C16: the UPDATE of an attempt does not depend on what the attempt read.
\* A worker at the UPDATE is never held back by what another worker did to
\* the row, an UPDATE that returns makes the attempt a success, and the row
\* then holds the payload of that UPDATE: of two workers that read the same
\* row before either wrote, both succeed and the later write stays.
C16_LastWriteWins ==
    /\ [](\A w \in WorkerIds : wpc[w] = "execute" => ENABLED ExecuteOk(w))
    /\ [][\A w \in WorkerIds :
             (/\ wpc[w] = "execute"
              /\ wpc'[w] = "release"
              /\ ret'[w].kind = "ret") =>
                 /\ ret'[w].success
                 /\ vin[w] \in DOMAIN table =>
                        table'[vin[w]] = NewBlob(w, operations[w] + 1)]_vars

C16_Witness ==
    /\ \A w \in WorkerIds :
          /\ wpc[w] = "release"
          /\ ret[w].kind = "ret"
          /\ ret[w].success
          /\ row[w] = InitialBlob
          /\ vin[w] \in DOMAIN table
    /\ \A v, w \in WorkerIds : vin[v] = vin[w]
    /\ \E w \in WorkerIds : table[vin[w]] = NewBlob(w, 1)

\* C17: no step of a run makes the total, the success count or the failure
\* count smaller.
C17_CountersMonotone ==
    [][/\ total_operations' >= total_operations
       /\ successful_operations' >= successful_operations
       /\ failed_operations' >= failed_operations]_vars

C17_Witness ==
    /\ successful_operations >= 1
    /\ failed_operations >= 1
    /\ periodic >= 1
    /\ finalReports = 1
    /\ orch = "closed"

\* C18: the step that prints a metrics line and the step that prints the
\* final results leave the counters, the buffer, running and start_time as
\* they are; the line is computed from the counters and the last
\* min(SnapshotLimit, length) entries of the buffer, the final results from
\* all of them.
C18_ReportsOnlyRead ==
    [][/\ periodic' # periodic =>
             /\ UNCHANGED << counters, results, appended, running, start_time >>
             /\ line'.total = total_operations
             /\ line'.latency = LatencyStats(Latencies(
                    LastOf(results, Min(SnapshotLimit, Len(results)))))
       /\ finalReports' # finalReports =>
             /\ UNCHANGED << counters, results, appended, running, start_time >>
             /\ finalReport'.total = total_operations
             /\ finalReport'.n = Len(results)
             /\ finalReport'.latency = LatencyStats(Latencies(results))]_vars

C18_Witness ==
    /\ periodic >= 1
    /\ line.latency.n >= 1
    /\ finalReports = 1
    /\ finalReport.latency.n >= 1
    /\ results # << >>

\* C19: running changes only in a step of the orchestrator: to true when
\* run_test begins, to false when run_test leaves its sleep; once a run has
\* cleared it, it stays false.
C19_RunningSingleWriter ==
    /\ [][running' # running =>
             \/ running' /\ ~Started /\ orch = "ready" /\ orch' = "sleep"
             \/ ~running' /\ orch = "sleep" /\ orch' = "gather"]_vars
    /\ [][(Started /\ ~running) => ~running']_vars

C19_Witness ==
    /\ Started
    /\ ~running
    /\ orch = "closed"
    /\ rpc = "done"
    /\ \E w \in WorkerIds : wpc[w] = "done" /\ operations[w] = MaxOps

\* C20: after running was cleared, a worker whose attempt returns records
\* it (one append, one count) and that is its last one: the step takes the
\* worker out of its loop, and a worker that has returned records nothing.
\* So each worker adds at most one to the total after the stop.
C20_OneMoreAfterStop ==
    /\ [][\A w \in WorkerIds :
             (/\ Started /\ ~running
              /\ wpc[w] = "release" /\ wpc'[w] # "release"
              /\ signals' = signals) =>
                 operations'[w] = operations[w] + 1]_vars
    /\ [][\A w \in WorkerIds :
             (Started /\ ~running /\ operations'[w] # operations[w]) =>
                 /\ operations'[w] = operations[w] + 1
                 /\ wpc'[w] = "done"
                 /\ total_operations' = total_operations + 1
                 /\ Len(appended') = Len(appended) + 1
                 /\ results' = DequeAppend(results, Last(appended'))]_vars
    /\ [][\A w \in WorkerIds :
             Returned(w) =>
                 operations'[w] = operations[w] /\ wpc'[w] = wpc[w]]_vars

C20_Witness ==
    /\ finalReports = 1
    /\ signals = 0
    /\ \E i \in 1 .. Len(appended) :
          appended[i].timestamp + appended[i].duration > start_time + Duration
    /\ \A w \in WorkerIds : wpc[w] = "done" /\ operations[w] >= 1

\* the nearest-rank percentile: the value at rank ceil(p * len / 100) of
\* the sorted data
NearestRank(data, p) == Sorted(data)[(p * Len(data) + 99) \div 100]

\* C14: for two or more latencies the 95th percentile reported is the
\* nearest-rank value, the one at rank ceil(0.95 * n) of the sorted list,
\* hence one of the latencies and never above the largest, and the mean
\* reported is their sum over their number; for 10, 20, 30, 40, 50 these
\* are 50 and 30.
C14_P95NearestRank ==
    stats.n >= 2 =>
        /\ SameValue(stats.p95, Fraction(NearestRank(sample, 95), 1))
        /\ \E i \in 1 .. Len(sample) :
              SameValue(stats.p95, Fraction(sample[i], 1))
        /\ stats.avg.num = SumOf(sample) /\ stats.avg.den = Len(sample)
        /\ sample = << 10, 20, 30, 40, 50 >> =>
              /\ SameValue(stats.p95, Fraction(50, 1))
              /\ SameValue(stats.avg, Fraction(30, 1))

\* what the statistics do report for 10, 20, 30, 40, 50
C14_Reported ==
    (stats.n >= 2 /\ sample = << 10, 20, 30, 40, 50 >>) =>
        /\ SameValue(stats.p95, Fraction(57, 1))
        /\ SameValue(stats.avg, Fraction(30, 1))

\* the mean is the arithmetic mean for every list
C14_MeanHolds ==
    stats.n >= 1 =>
        /\ stats.avg.num = SumOf(sample)
        /\ stats.avg.den = Len(sample)
        /\ stats.n = Len(sample)

\* the copy taken of a buffer longer than SnapshotLimit is its last
\* SnapshotLimit entries, in their order
SnapshotKeepsLast ==
    LET buf == [i \in 1 .. (SnapshotLimit + 1) |-> i]
    IN  /\ Len(Snapshot(buf)) = SnapshotLimit
        /\ Snapshot(buf) = LastOf(buf, SnapshotLimit)
        /\ Snapshot(buf)[1] = 2

\* C21: the pool is closed in one step only, the one in which main ends,
\* and that step comes after initialize failed or run_test returned or
\* raised, never before or during run_test; while the pool is closed no
\* worker and no reporter is live and no connection is held; a main that
\* has ended has left no pool open, and nothing runs after it, so the pool
\* is closed once.
C21_PoolClosedLastAndOnce ==
    /\ [](pool = "closed" =>
             /\ orch = "closed"
             /\ \A w \in WorkerIds : ~Live(wpc[w]) /\ ~Holding(w)
             /\ ~Live(rpc)
             /\ held = 0)
    /\ [](orch = "closed" => pool # "open")
    /\ [][pool' # pool =>
             \/ pool = "none" /\ pool' = "open" /\ orch = "init"
             \/ /\ pool = "open" /\ pool' = "closed"
                /\ orch \in {"reported", "aborted", "failed"}
                /\ orch' = "closed"]_vars
    /\ [][orch # "closed"]_vars

C21_Witness ==
    /\ pool = "closed"
    /\ orch = "closed"
    /\ signals >= 1
    /\ total_operations >= 1
    /\ \E w \in WorkerIds : wpc[w] = "cancelled"
    /\ \E w \in WorkerIds : wpc[w] = "done"

====
